---- MODULE Spec2Model ----
(***************************************************************************)
(* State-machine model of                                                  *)
(*   src/milky-way-planets-and-their-relative-distances-to-earth.py        *)
(*                                                                         *)
(* The script keeps three process-wide statistics (frame_count,            *)
(* closest_counts, distance_sums), regenerates the list of dates on every  *)
(* start, and lets a matplotlib FuncAnimation call update(frame) from a    *)
(* GUI timer.  The operations are the two button callbacks                 *)
(* (start_simulation, stop_simulation) and the callbacks the animation     *)
(* object registers with the GUI: its first-draw handler and its timer     *)
(* step, both of which call update.                                        *)
(*                                                                         *)
(* Encodings.                                                              *)
(*  - A position is a pair of integers in thousandths of an AU,            *)
(*    heliocentric (the subtraction of the Sun's position is folded into   *)
(*    the ephemeris table).                                                *)
(*  - A full-precision distance d = sqrt(s) is represented by its square s *)
(*    (an exact, order-preserving encoding of the real number), so that    *)
(*    argmin and rounding are computed without floating point error.       *)
(*  - A distance rounded to 2 decimals is an integer number of hundredths  *)
(*    of an AU; np.round rounds halves to the even neighbour.              *)
(*  - A date is a day number: 365 * year + day offset (the calendar is     *)
(*    taken to have 365-day years, as update_dates itself does).           *)
(***************************************************************************)
EXTENDS Integers, Sequences, FiniteSets

\* ------------------------------------------------------------ bounds
\* The settings start_year / end_year range over MinYear..MaxYear.
MinYear == 2998
MaxYear == 3001

\* The values of step_days the model is run with.
StepChoices == {73, 100, 365}

\* ------------------------------------------------- program constants
\* range(0, (end_year - start_year) * 365, step_days)
DaysPerYear == 365

\* load('de422.bsp'): the ephemeris file covers the years -3000 .. 3000.
EphFirstYear == -3000
EphLastYear == 3000

\* ------------------------------------------------------ data mappings
planets ==
    <<"Mercury", "Venus", "Earth", "Mars", "Jupiter", "Saturn", "Uranus", "Neptune">>

table_planets == SelectSeq(planets, LAMBDA p : p # "Earth")

PlanetSet == {planets[i] : i \in DOMAIN planets}

TablePlanetSet == {table_planets[i] : i \in DOMAIN table_planets}

\* Position of x in the sequence s (list.index, 1-based here).
IndexOf(s, x) == CHOOSE i \in DOMAIN s : s[i] = x /\ \A j \in 1..(i - 1) : s[j] # x

\* ------------------------------------------------------- the ephemeris
\* Six snapshots of heliocentric planar positions in thousandths of an AU.
\* They are data of the model: the file de422.bsp is read, never computed.
Outer == [Jupiter |-> <<5200, 0>>, Saturn |-> <<0, 9500>>,
          Uranus |-> <<-19000, 0>>, Neptune |-> <<0, -30000>>]

Inner(e, me, v, ma) ==
    [p \in PlanetSet |->
        CASE p = "Earth"   -> e
          [] p = "Mercury" -> me
          [] p = "Venus"   -> v
          [] p = "Mars"    -> ma
          [] OTHER         -> Outer[p]]

EphTable ==
    << Inner(<<1000, 0>>,   <<400, 0>>,    <<0, 700>>,    <<-1500, 0>>),
       Inner(<<1000, 0>>,   <<386, 0>>,    <<388, 0>>,    <<2500, 0>>),
       Inner(<<0, 1000>>,   <<400, 1900>>, <<0, 300>>,    <<0, 1700>>),
       Inner(<<-1000, 0>>,  <<-385, 0>>,   <<-300, 0>>,   <<-1605, 0>>),
       Inner(<<600, 800>>,  <<0, 0>>,      <<300, 400>>,  <<1500, 0>>),
       Inner(<<1000, 0>>,   <<388, 0>>,    <<386, 0>>,    <<-1500, 0>>) >>

\* Day number of 1 January of year y.
YearStart(y) == y * DaysPerYear

\* eph[...].at(date) raises when the date is outside the file's coverage.
Covered(date) == YearStart(EphFirstYear) <= date /\ date < YearStart(EphLastYear)

\* eph[planet_map[p]].at(date).position.au - sun.at(date).position.au, [:2]
Position(p, date) == EphTable[(date % Len(EphTable)) + 1][p]

\* ------------------------------------------------------ pure functions
\* np.linalg.norm(a - b), represented by its square.
SqNorm(a, b) == (a[1] - b[1]) * (a[1] - b[1]) + (a[2] - b[2]) * (a[2] - b[2])

\* Largest r with r * r <= s, by bisection.
RECURSIVE ISqrtIn(_, _, _)
ISqrtIn(s, lo, hi) ==
    IF lo >= hi THEN lo
    ELSE LET mid == (lo + hi + 1) \div 2
         IN  IF mid * mid <= s THEN ISqrtIn(s, mid, hi) ELSE ISqrtIn(s, lo, mid - 1)

\* 46340 is the largest root whose square fits TLC's 32-bit integers.
ISqrt(s) == ISqrtIn(s, 0, IF s < 46340 THEN s ELSE 46340)

\* np.round(sqrt(s) / 1000, 2) in hundredths: nearest, halves to even.
Round2(s) ==
    LET r == ISqrt(s)
        q == r \div 10
        m == r % 10
    IN  IF m < 5 THEN q
        ELSE IF m > 5 \/ r * r # s THEN q + 1
        ELSE IF q % 2 = 0 THEN q ELSE q + 1

\* round(a / b) for b > 0: nearest integer, halves to even.
RoundDiv(a, b) ==
    LET q == a \div b
        r == a % b
    IN  IF 2 * r < b THEN q
        ELSE IF 2 * r > b THEN q + 1
        ELSE IF q % 2 = 0 THEN q ELSE q + 1

RECURSIVE SumOver(_, _)
SumOver(f, S) ==
    IF S = {} THEN 0
    ELSE LET x == CHOOSE y \in S : TRUE IN f[x] + SumOver(f, S \ {x})

\* range(0, n, step) as a sequence.
RECURSIVE RangeFrom(_, _, _)
RangeFrom(i, n, step) == IF i >= n THEN <<>> ELSE <<i>> \o RangeFrom(i + step, n, step)

\* update_dates(): ts.utc(start_year, 1, 1).tt + i for i in range(...)
MakeDates(sy, ey, step) ==
    LET offs == RangeFrom(0, (ey - sy) * DaysPerYear, step)
    IN  [k \in DOMAIN offs |-> YearStart(sy) + offs[k]]

\* ----------------------------------------------------------- the state
VARIABLES
    start_year, end_year, step_days,   \* simulation settings
    dates,                             \* the list update_dates() builds
    frame_count, closest_counts, distance_sums,   \* tracking data
    ani,            \* "None", or the life-cycle stage of the FuncAnimation
    ani_frames,     \* frames=len(dates), fixed when the animation is created
    ani_next,       \* position of the animation's frame iterator
    timer_running,  \* ani.event_source is started
    data_table, planet_scatter, earth_scatter, title, pie,   \* what is shown
    closest_planet, \* update's local of the last completed frame
    seen,           \* history: frame arguments of update since the last start
    processed,      \* history: dates of the frames completed since the last start
    aborted,        \* history: some frame raised since the last start
    last_op,        \* history: the operation that led to this state
    last_trigger    \* history: the last button pressed

settings == <<start_year, end_year, step_days>>
stats == <<frame_count, closest_counts, distance_sums>>
animation == <<ani, ani_frames, ani_next, timer_running>>
display == <<data_table, planet_scatter, earth_scatter, title, pie, closest_planet>>
history == <<seen, processed, aborted, last_op, last_trigger>>
vars == <<settings, dates, stats, animation, display, history>>

\* -------------------------------------------------- update's own steps
\* distances = np.linalg.norm(planet_positions - earth_pos[:2], axis=1)
Distances(date) ==
    [i \in DOMAIN table_planets |->
        SqNorm(Position(table_planets[i], date), Position("Earth", date))]

\* np.argmin(d): a left-to-right scan that keeps the first minimum.
RECURSIVE ArgMinScan(_, _, _)
ArgMinScan(d, i, best) ==
    IF i > Len(d) THEN best
    ELSE ArgMinScan(d, i + 1, IF d[i] < d[best] THEN i ELSE best)

\* np.argmin(np.round(d, 2)): the scan on the values rounded to 2 decimals.
ArgMinRounded(d) == ArgMinScan([i \in DOMAIN d |-> Round2(d[i])], 2, 1)

ArgMin(d) == ArgMinScan(d, 2, 1)

\* current_distances = dict(zip(non-Earth planets, np.round(distances, 2)))
CurrentDistances(d) ==
    [p \in TablePlanetSet |-> Round2(d[IndexOf(table_planets, p)])]

\* distance_sums[planet] = dist
AddDistancesOverwrite(ds, cd) ==
    [p \in PlanetSet |-> IF p \in DOMAIN cd THEN cd[p] ELSE ds[p]]

\* for planet, dist in current_distances.items(): distance_sums[planet] += dist
AddDistances(ds, cd) ==
    [p \in PlanetSet |-> IF p \in DOMAIN cd THEN ds[p] + cd[p] ELSE ds[p]]

\* if min_index: closest_counts[closest_planet] += 1
IncClosestByIndex(cc, p) ==
    IF IndexOf(table_planets, p) - 1 # 0 THEN [cc EXCEPT ![p] = @ + 1] ELSE cc

\* if closest_planet: closest_counts[closest_planet] += 1
IncClosest(cc, p) == IF p # "" THEN [cc EXCEPT ![p] = @ + 1] ELSE cc

\* sorted(...) is stable: p goes after every element whose key is <= its own.
RECURSIVE InsertByKey(_, _, _)
InsertByKey(s, p, key) ==
    IF s = <<>> THEN <<p>>
    ELSE IF key[Head(s)] <= key[p] THEN <<Head(s)>> \o InsertByKey(Tail(s), p, key)
    ELSE <<p>> \o s

RECURSIVE SortedByKey(_, _)
SortedByKey(s, key) ==
    IF s = <<>> THEN <<>>
    ELSE InsertByKey(SortedByKey(SubSeq(s, 1, Len(s) - 1), key), s[Len(s)], key)

\* update_table(current_distances): the four columns it writes.
UpdateTable(cd, cc, ds, fc) ==
    LET sorted_planets ==
            SortedByKey(SelectSeq(table_planets, LAMBDA p : p \in DOMAIN cd), cd)
        closest_order == [p \in DOMAIN cd |-> IndexOf(sorted_planets, p)]
        closest_percentage ==
            [p \in TablePlanetSet |->
                IF fc > 0 THEN RoundDiv(cc[p] * 10000, fc) ELSE 0]
    IN  [current    |-> [p \in TablePlanetSet |-> cd[p]],
         average    |-> [p \in TablePlanetSet |->
                            IF fc > 0 THEN RoundDiv(ds[p], fc) ELSE 0],
         rank       |-> [p \in TablePlanetSet |-> closest_order[p]],
         percentage |-> closest_percentage]

\* filtered_counts = {p: v for p, v in closest_counts.items() if v > 0 and p != "Earth"}
FilteredCounts(cc) ==
    [p \in {q \in PlanetSet : cc[q] > 0 /\ q # "Earth"} |-> cc[p]]

\* A start that leaves closest_counts as it is.
StaleClosestCounts == closest_counts

\* closest_counts = {planet: 0 for planet in planets}
ResetClosestCounts == [p \in PlanetSet |-> 0]

\* distance_sums = {planet: 0 for planet in planets}
ResetDistanceSums == [p \in PlanetSet |-> 0]

\* ------------------------------------------------------------- start-up
Years == MinYear..MaxYear

Init ==
    /\ start_year \in Years
    /\ end_year \in Years
    /\ step_days \in StepChoices
    /\ dates = MakeDates(start_year, end_year, step_days)
    /\ frame_count = 0
    /\ closest_counts = [p \in PlanetSet |-> 0]
    /\ distance_sums = [p \in PlanetSet |-> 0]
    /\ ani = "None"
    /\ ani_frames = 0
    /\ ani_next = 0
    /\ timer_running = FALSE
    /\ data_table = [c \in {"current", "average", "rank", "percentage"} |->
                        [p \in TablePlanetSet |-> "-"]]
    /\ planet_scatter = [p \in PlanetSet |-> <<>>]
    /\ earth_scatter = <<>>
    /\ title = <<>>
    /\ pie = <<>>
    /\ closest_planet = ""
    /\ seen = <<>>
    /\ processed = <<>>
    /\ aborted = FALSE
    /\ last_op = "init"
    /\ last_trigger = "none"

\* --------------------------------------------------------------- update
\* update(frame) running to its end.
UpdateCompletes(frame) ==
    LET date == dates[frame + 1]
        d    == Distances(date)
        cp   == table_planets[ArgMin(d)]
        cd   == CurrentDistances(d)
    IN  /\ Covered(date)
        /\ frame_count' = frame_count + 1
        /\ distance_sums' = AddDistances(distance_sums, cd)
        /\ planet_scatter' =
              [p \in PlanetSet |->
                  IF p # "Earth" THEN Position(p, date) ELSE planet_scatter[p]]
        /\ earth_scatter' = Position("Earth", date)
        /\ closest_counts' = IncClosest(closest_counts, cp)
        /\ data_table' = UpdateTable(cd, closest_counts', distance_sums', frame_count')
        /\ title' = <<date, frame * step_days>>
        /\ pie' = FilteredCounts(closest_counts')
        /\ closest_planet' = cp
        /\ seen' = Append(seen, frame)
        /\ processed' = Append(processed, date)
        /\ last_op' = "frame"
        /\ UNCHANGED <<aborted, last_trigger>>

\* update(frame) raising at the first ephemeris lookup (line 196): only
\* frame_count += 1 has run.
UpdateAborts(frame) ==
    LET date == dates[frame + 1]
    IN  /\ ~Covered(date)
        /\ frame_count' = frame_count + 1
        /\ seen' = Append(seen, frame)
        /\ aborted' = TRUE
        /\ last_op' = "abort"
        /\ UNCHANGED <<closest_counts, distance_sums, display, processed, last_trigger>>

\* ------------------------------------------------------ button callbacks
\* start_simulation(event).  The three tracking globals are rebound and the
\* dates rebuilt first.  Only when ani is None is an animation created, with
\* frames=len(dates) and a fresh frame iterator; an existing animation keeps
\* its iterator where it is.  ani.event_source.start() then starts the timer;
\* on an animation that has run out (event_source is gone) that call raises,
\* after the globals were rebound.
StartSimulation ==
    /\ frame_count' = 0
    /\ closest_counts' = ResetClosestCounts
    /\ distance_sums' = ResetDistanceSums
    /\ dates' = MakeDates(start_year, end_year, step_days)
    /\ IF ani = "None"
       THEN /\ ani' = "created"
            /\ ani_frames' = Len(dates')
            /\ ani_next' = 0
       ELSE UNCHANGED <<ani, ani_frames, ani_next>>
    /\ timer_running' = (ani # "finished")
    /\ seen' = <<>>
    /\ processed' = <<>>
    /\ aborted' = FALSE
    /\ last_op' = "start"
    /\ last_trigger' = "start"
    /\ UNCHANGED <<settings, display>>

\* stop_simulation(event): stops the timer of an existing animation, does
\* nothing when ani is None (and raises, changing nothing, once the
\* animation's event_source is gone).
StopSimulation ==
    /\ timer_running' = IF ani \in {"None", "finished"} THEN timer_running ELSE FALSE
    /\ last_op' = "stop"
    /\ last_trigger' = "stop"
    /\ UNCHANGED <<settings, dates, stats, ani, ani_frames, ani_next, display,
                   seen, processed, aborted>>

\* ------------------------------------------- the animation's callbacks
\* FuncAnimation(fig, update, frames=len(dates), interval=1, repeat=False)
\* connects a handler to the figure's next draw event.  The handler
\* disconnects itself, draws the first frame by calling update with the first
\* item of a fresh frame sequence (no init_func is given), registers the
\* timer step and starts the timer.  The animation's own iterator is not
\* advanced by this first call.
FirstDrawCompletes ==
    /\ ani = "created"
    /\ ani_frames > 0
    /\ UpdateCompletes(0)
    /\ ani' = "stepping"
    /\ timer_running' = TRUE
    /\ UNCHANGED <<settings, dates, ani_frames, ani_next>>

\* With an empty frame sequence the first draw only warns; the step is
\* registered and the timer started all the same.
FirstDrawEmpty ==
    /\ ani = "created"
    /\ ani_frames = 0
    /\ ani' = "stepping"
    /\ timer_running' = TRUE
    /\ last_op' = "draw"
    /\ UNCHANGED <<settings, dates, stats, ani_frames, ani_next, display,
                   seen, processed, aborted, last_trigger>>

\* update raising inside the first draw: the handler is already disconnected
\* and the timer step is never registered.
FirstDrawAborts ==
    /\ ani = "created"
    /\ ani_frames > 0
    /\ UpdateAborts(0)
    /\ ani' = "broken"
    /\ UNCHANGED <<settings, dates, ani_frames, ani_next, timer_running>>

\* A timer tick with the step registered: the next frame of the iterator.
StepCompletes ==
    /\ ani = "stepping"
    /\ timer_running
    /\ ani_next < ani_frames
    /\ UpdateCompletes(ani_next)
    /\ ani_next' = ani_next + 1
    /\ UNCHANGED <<settings, dates, ani, ani_frames, timer_running>>

\* update raising inside a timer tick.  The iterator has advanced.  Whether
\* the timer fires again depends on the GUI backend (one re-arms the timer
\* after the callbacks return, another keeps its periodic timer).
StepAborts ==
    /\ ani = "stepping"
    /\ timer_running
    /\ ani_next < ani_frames
    /\ UpdateAborts(ani_next)
    /\ ani_next' = ani_next + 1
    /\ timer_running' \in BOOLEAN
    /\ UNCHANGED <<settings, dates, ani, ani_frames>>

\* A timer tick with the iterator exhausted and repeat=False: the animation
\* stops its timer and drops its event_source.
StepFinishes ==
    /\ ani = "stepping"
    /\ timer_running
    /\ ani_next >= ani_frames
    /\ ani' = "finished"
    /\ timer_running' = FALSE
    /\ last_op' = "finish"
    /\ UNCHANGED <<settings, dates, stats, ani_frames, ani_next, display,
                   seen, processed, aborted, last_trigger>>

\* A timer tick with no callback registered: the timer stops itself.
TimerIdle ==
    /\ ani \in {"created", "broken"}
    /\ timer_running
    /\ timer_running' = FALSE
    /\ last_op' = "idle"
    /\ UNCHANGED <<settings, dates, stats, ani, ani_frames, ani_next, display,
                   seen, processed, aborted, last_trigger>>

Next ==
    \/ StartSimulation
    \/ StopSimulation
    \/ FirstDrawCompletes
    \/ FirstDrawEmpty
    \/ FirstDrawAborts
    \/ StepCompletes
    \/ StepAborts
    \/ StepFinishes
    \/ TimerIdle

Spec == Init /\ [][Next]_vars

\* ------------------------------------------------------------ properties
SumCounts == SumOver(closest_counts, PlanetSet)

\* Date of the frame that was completed last.
LastDate == processed[Len(processed)]

\* Full-precision distance (as its square) of p in the frame completed last.
FullDist(p) == Distances(LastDate)[IndexOf(table_planets, p)]

\* p comes before q in the Body list.
Before(p, q) == IndexOf(table_planets, p) < IndexOf(table_planets, q)

\* Sum of p's 2-decimal distances over the frames at the given dates.
RECURSIVE SumRounded(_, _)
SumRounded(p, ds) ==
    IF ds = <<>> THEN 0
    ELSE Round2(Distances(Head(ds))[IndexOf(table_planets, p)]) + SumRounded(p, Tail(ds))

\* ceil(a / b) for b > 0.
CeilDiv(a, b) == (a + b - 1) \div b

ExpectedPoints == CeilDiv((end_year - start_year) * DaysPerYear, step_days)

\* C1: in every state reached by start, stop and completed frames (no frame
\* raised since the last start) the closest_counts sum to frame_count, and
\* Earth is never counted.
C1_CountsSumToFrames ==
    ~aborted => (SumCounts = frame_count /\ closest_counts["Earth"] = 0)

C1_Witness ==
    /\ ~aborted
    /\ frame_count >= 3
    /\ Cardinality({p \in PlanetSet : closest_counts[p] > 0}) >= 2

\* C2: the state a start trigger leaves has frame_count = 0 and every entry
\* of closest_counts and distance_sums equal to 0, whatever state it was
\* issued in.
C2_StartResets ==
    last_op = "start" =>
        /\ frame_count = 0
        /\ \A p \in PlanetSet : closest_counts[p] = 0 /\ distance_sums[p] = 0

\* A start issued while playback is running, after frames were processed.
C2_Witness == last_op = "start" /\ ani = "stepping" /\ ani_next >= 2

\* C3 (as claimed): since the last start trigger, update has been called with
\* the frame indices 0, 1, 2, ... in order, none skipped and none repeated.
C3_Original == \A i \in DOMAIN seen : seen[i] = i - 1

\* C4 (as claimed): the dates built for a valid year range number
\* ceil((end_year - start_year) * 365 / step_days), and when playback has
\* just run to its end with no stop and no failed frame since the last start,
\* frame_count and the sum of closest_counts equal that number.
C4_Original ==
    end_year >= start_year =>
        /\ Len(dates) = ExpectedPoints
        /\ (last_op = "finish" /\ last_trigger = "start" /\ ~aborted) =>
              (frame_count = ExpectedPoints /\ SumCounts = ExpectedPoints)

\* C5 (as claimed): a step that ends with stop as the last trigger (the stop
\* itself, or anything that happens before the next start) leaves
\* frame_count, closest_counts and distance_sums unchanged.
C5_Original == [][last_trigger' = "stop" => UNCHANGED stats]_vars

\* C6 (as claimed): the Body counted as closest in a completed frame is the
\* first Body, in list order, whose distance rounded to 2 decimals is minimal.
C6_Original ==
    last_op = "frame" =>
        \A q \in TablePlanetSet :
            /\ Round2(FullDist(closest_planet)) <= Round2(FullDist(q))
            /\ Before(q, closest_planet) =>
                  Round2(FullDist(closest_planet)) < Round2(FullDist(q))

\* C6 (amended): the Body counted as closest in a completed frame is the
\* first Body, in list order, whose full-precision distance is minimal.
C6_ClosestByFullPrecision ==
    last_op = "frame" =>
        \A q \in TablePlanetSet :
            /\ FullDist(closest_planet) <= FullDist(q)
            /\ Before(q, closest_planet) => FullDist(closest_planet) < FullDist(q)

\* A completed frame in which an earlier Body ties with the closest one at 2
\* decimals and is farther at full precision.
C6_Witness ==
    /\ last_op = "frame"
    /\ \E q \in TablePlanetSet :
          /\ Before(q, closest_planet)
          /\ Round2(FullDist(q)) = Round2(FullDist(closest_planet))
          /\ FullDist(q) > FullDist(closest_planet)

\* C7: with frame_count > 0 and no failed frame since the last start,
\* frame_count is the number of frames completed since that start and
\* distance_sums[Body] is the sum of the Body's per-frame (2-decimal)
\* distances over exactly those frames.
C7_SumsOverFramesSinceStart ==
    (~aborted /\ frame_count > 0) =>
        /\ frame_count = Len(processed)
        /\ \A p \in TablePlanetSet : distance_sums[p] = SumRounded(p, processed)

\* Frames completed after a restart issued in the middle of playback.
C7_Witness == ~aborted /\ frame_count >= 2 /\ ani_next > frame_count

\* C8 (as claimed): a start trigger issued with end_year before start_year is
\* rejected: it changes neither the statistics nor the playback state.
C8_Original ==
    [][(last_op' = "start" /\ end_year < start_year) =>
          UNCHANGED <<stats, animation>>]_vars

\* C9 (as claimed): a frame that raises leaves frame_count, closest_counts and
\* distance_sums as they were.
C9_Original == [][last_op' = "abort" => UNCHANGED stats]_vars

\* C10 (as claimed): after a completed frame the ranks in the table are a
\* bijection from the non-Earth Bodies onto 1..N, ascending in the rounded
\* current distance, and the Body just counted as closest has rank 1.
C10_Original ==
    last_op = "frame" =>
        /\ {data_table.rank[p] : p \in TablePlanetSet} = 1..Len(table_planets)
        /\ \A p, q \in TablePlanetSet :
              data_table.current[p] < data_table.current[q] =>
                  data_table.rank[p] < data_table.rank[q]
        /\ data_table.rank[closest_planet] = 1
====
